---- MODULE Spec2Model ----
(***************************************************************************)
(* Model of server/app.py: the signed session token (create_session_token, *)
(* verify_session_token), the cookie based session gate (require_auth,     *)
(* is_admin) and the routes built on them.                                 *)
(*                                                                         *)
(* Text is modelled as a sequence of code points (ASCII for everything the *)
(* model writes), bytes as a sequence of 0..255.                           *)
(***************************************************************************)
EXTENDS FiniteSets, Integers, Sequences, TLC

VARIABLES
    SESSION_SECRET,          \* the signing secret read from the environment
    SESSION_MAX_AGE_MS,      \* the configured TTL
    GOOGLE_CLIENT_ID,        \* the OAuth client id, or None
    ADMIN_EMAILS,            \* the admin allow-list
    PAYPAL_CONFIGURED,       \* PAYPAL_CLIENT_ID and PAYPAL_CLIENT_SECRET are set
    SUBSCRIPTIONS_DB_READY,  \* init_subscriptions() succeeded
    now,                     \* int(time.time() * 1000)
    jar,                     \* the client's cookie slot lt_auth
    plans,                   \* rows of subscription_plans
    signups,                 \* rows of subscription_signups
    req,                     \* the call or request being handled
    resp,                    \* its outcome
    calls                    \* the local variables of calls that run side by side

config == <<SESSION_SECRET, SESSION_MAX_AGE_MS, GOOGLE_CLIENT_ID, ADMIN_EMAILS,
            PAYPAL_CONFIGURED, SUBSCRIPTIONS_DB_READY>>

db == <<plans, signups>>

vars == <<config, now, jar, db, req, resp, calls>>

(***************************************************************************)
(* Python values.  Every value carries the same four fields so that values *)
(* of different Python types can be compared.                              *)
(***************************************************************************)
PyNone == [t |-> "none", s |-> <<>>, n |-> 0, d |-> <<>>]

PyStr(x) == [t |-> "str", s |-> x, n |-> 0, d |-> <<>>]

PyInt(x) == [t |-> "int", s |-> <<>>, n |-> x, d |-> <<>>]

PyBool(x) == [t |-> "bool", s |-> <<>>, n |-> IF x THEN 1 ELSE 0, d |-> <<>>]

PyList(x) == [t |-> "list", s |-> <<>>, n |-> 0, d |-> x]

\* a dict is the sequence of its items <<key, value>> in insertion order
PyDict(x) == [t |-> "dict", s |-> <<>>, n |-> 0, d |-> x]

\* what json.loads raises on
JSONDecodeError == [t |-> "error", s |-> <<>>, n |-> 0, d |-> <<>>]

\* Python truthiness: None, '', 0, False, [] and {} are falsy
Truthy(v) ==
    CASE v.t = "none" -> FALSE
      [] v.t = "str"  -> v.s /= <<>>
      [] v.t = "int"  -> v.n /= 0
      [] v.t = "bool" -> v.n /= 0
      [] OTHER        -> v.d /= <<>>

RECURSIVE DictIndex(_, _, _)
DictIndex(items, k, i) ==
    IF i > Len(items) THEN 0
    ELSE IF items[i][1] = k THEN i
    ELSE DictIndex(items, k, i + 1)

\* dict.get(k): the value, or None when the key is missing
DictGet(dict, k) ==
    LET i == DictIndex(dict.d, k, 1)
    IN  IF i = 0 THEN PyNone ELSE dict.d[i][2]

DictHas(dict, k) == DictIndex(dict.d, k, 1) /= 0

\* d[k] = v: an existing key keeps its position, a new key goes last
DictSet(dict, k, v) ==
    LET i == DictIndex(dict.d, k, 1)
    IN  IF i = 0 THEN PyDict(Append(dict.d, <<k, v>>))
        ELSE PyDict([dict.d EXCEPT ![i] = <<k, v>>])

RECURSIVE DictUpdate(_, _, _)
DictUpdate(dict, items, i) ==
    IF i > Len(items) THEN dict
    ELSE DictUpdate(DictSet(dict, items[i][1], items[i][2]), items, i + 1)

\* Python's dict equality ignores the order of the items
DictEq(a, b) ==
    /\ a.t = "dict" /\ b.t = "dict"
    /\ Len(a.d) = Len(b.d)
    /\ \A i \in 1..Len(a.d) : DictHas(b, a.d[i][1]) /\ DictGet(b, a.d[i][1]) = a.d[i][2]

(***************************************************************************)
(* base64 (base64.urlsafe_b64encode / urlsafe_b64decode)                   *)
(***************************************************************************)
PadChar == 61

\* the URL-safe alphabet: A-Z a-z 0-9 - _
B64Char(v) ==
    IF v < 26 THEN 65 + v
    ELSE IF v < 52 THEN 97 + (v - 26)
    ELSE IF v < 62 THEN 48 + (v - 52)
    ELSE IF v = 62 THEN 45
    ELSE 95

\* urlsafe_b64encode: three bytes to four characters, '=' padded.  The
\* character at position j of the output, from the group of bytes it is in.
EncodedChar(raw, j) ==
    LET g == (j - 1) \div 4
        r == (j - 1) % 4
        n == Len(raw)
        b0 == raw[3 * g + 1]
        b1 == IF 3 * g + 2 <= n THEN raw[3 * g + 2] ELSE 0
        b2 == IF 3 * g + 3 <= n THEN raw[3 * g + 3] ELSE 0
    IN  CASE r = 0 -> B64Char(b0 \div 4)
          [] r = 1 -> B64Char((b0 % 4) * 16 + b1 \div 16)
          [] r = 2 -> IF 3 * g + 2 > n THEN PadChar ELSE B64Char((b1 % 16) * 4 + b2 \div 64)
          [] OTHER -> IF 3 * g + 3 > n THEN PadChar ELSE B64Char(b2 % 64)

urlsafe_b64encode(raw) ==
    [j \in 1..(4 * ((Len(raw) + 2) \div 3)) |-> EncodedChar(raw, j)]

RECURSIVE rstrip(_, _)
rstrip(str, c) ==
    IF Len(str) > 0 /\ str[Len(str)] = c THEN rstrip(SubSeq(str, 1, Len(str) - 1), c)
    ELSE str

base64url_encode(raw) == rstrip(urlsafe_b64encode(raw), PadChar)

\* the decoder's table after '-' and '_' were translated to '+' and '/':
\* '+' and '/' are accepted as well; 64 stands for "not in the alphabet"
B64Value(c) ==
    IF c >= 65 /\ c <= 90 THEN c - 65
    ELSE IF c >= 97 /\ c <= 122 THEN c - 97 + 26
    ELSE IF c >= 48 /\ c <= 57 THEN c - 48 + 52
    ELSE IF c = 45 \/ c = 43 THEN 62
    ELSE IF c = 95 \/ c = 47 THEN 63
    ELSE 64

\* binascii.a2b_base64, not strict.  The C loop reads one character at a
\* time: a character outside the alphabet is skipped; '=' is counted when at
\* least two characters of the current group were read, and ends the input
\* when the group is thereby complete; anything else is data.  quad_pos is
\* the number of data characters read so far modulo 4, pads the number of
\* '=' counted since the last data character.
IsData(c) == c /= PadChar /\ B64Value(c) /= 64

QuadPos(str, i) == Cardinality({j \in 1..(i - 1) : IsData(str[j])}) % 4

Pads(str, i) ==
    Cardinality({j \in 1..(i - 1) :
                    /\ str[j] = PadChar
                    /\ \A k \in (j + 1)..(i - 1) : ~IsData(str[k])})

\* the '=' at which the loop jumps to done, Len + 1 when it reads to the end
PadStop(str) ==
    LET stops == {i \in 1..Len(str) :
                     /\ str[i] = PadChar
                     /\ QuadPos(str, i) >= 2
                     /\ QuadPos(str, i) + Pads(str, i) + 1 >= 4}
    IN  IF stops = {} THEN Len(str) + 1
        ELSE CHOOSE i \in stops : \A j \in stops : i <= j

\* the byte at position k of the output, from the four data characters of
\* its group; the spare bits of a last, incomplete group are dropped
DecodedByte(data, k) ==
    LET g == (k - 1) \div 3
        r == (k - 1) % 3
        c0 == B64Value(data[4 * g + 1])
        c1 == B64Value(data[4 * g + 2])
        c2 == IF 4 * g + 3 <= Len(data) THEN B64Value(data[4 * g + 3]) ELSE 0
        c3 == IF 4 * g + 4 <= Len(data) THEN B64Value(data[4 * g + 4]) ELSE 0
    IN  CASE r = 0 -> c0 * 4 + c1 \div 16
          [] r = 1 -> (c1 % 16) * 16 + c2 \div 4
          [] OTHER -> (c2 % 4) * 64 + c3

\* the bytes of the data characters read; characters left over at the end
\* of the input are an error (binascii.Error)
DecodeData(data, ended) ==
    IF ended /\ Len(data) % 4 /= 0 THEN [ok |-> FALSE, bytes |-> <<>>]
    ELSE [ok |-> TRUE,
          bytes |-> [k \in 1..(3 * (Len(data) \div 4)
                               + (IF Len(data) % 4 >= 2 THEN (Len(data) % 4) - 1 ELSE 0))
                     |-> DecodedByte(data, k)]]

DecodeUpTo(str, stop) ==
    DecodeData(SelectSeq(SubSeq(str, 1, stop - 1), IsData), stop = Len(str) + 1)

a2b_base64(str) == DecodeUpTo(str, PadStop(str))

\* urlsafe_b64decode of a str: a code point above 127 raises ValueError
urlsafe_b64decode(str) ==
    IF \E i \in 1..Len(str) : str[i] > 127 THEN [ok |-> FALSE, bytes |-> <<>>]
    ELSE a2b_base64(str)

\* a decoder that forgets to put the padding back
base64url_decode_bytes_nopad(value) == urlsafe_b64decode(value)

base64url_decode_bytes(value) ==
    LET padding == [i \in 1..((4 - (Len(value) % 4)) % 4) |-> PadChar]
    IN  urlsafe_b64decode(value \o padding)

(***************************************************************************)
(* bytes.decode('utf-8'): fails on a byte sequence that is not UTF-8       *)
(***************************************************************************)
IsCont(b) == b >= 128 /\ b <= 191

\* the first index from i on that holds a byte above 127, Len + 1 if none
NextHigh(b, i) ==
    LET high == {j \in i..Len(b) : b[j] >= 128}
    IN  IF high = {} THEN Len(b) + 1 ELSE CHOOSE j \in high : \A k \in high : j <= k

RECURSIVE IsUtf8(_, _)

\* i is the index of the next byte above 127
IsUtf8At(b, i) ==
    IF i > Len(b) THEN TRUE
    ELSE IF b[i] >= 194 /\ b[i] <= 223 THEN
        i + 1 <= Len(b) /\ IsCont(b[i + 1]) /\ IsUtf8(b, i + 2)
    ELSE IF b[i] >= 224 /\ b[i] <= 239 THEN
        /\ i + 2 <= Len(b)
        /\ IsCont(b[i + 1]) /\ IsCont(b[i + 2])
        /\ (b[i] = 224 => b[i + 1] >= 160)
        /\ (b[i] = 237 => b[i + 1] <= 159)
        /\ IsUtf8(b, i + 3)
    ELSE IF b[i] >= 240 /\ b[i] <= 244 THEN
        /\ i + 3 <= Len(b)
        /\ IsCont(b[i + 1]) /\ IsCont(b[i + 2]) /\ IsCont(b[i + 3])
        /\ (b[i] = 240 => b[i + 1] >= 144)
        /\ (b[i] = 244 => b[i + 1] <= 143)
        /\ IsUtf8(b, i + 4)
    ELSE FALSE

IsUtf8(b, from) == IsUtf8At(b, NextHigh(b, from))

(***************************************************************************)
(* hmac.new(key, msg, sha256).digest().  The digest is shortened to two    *)
(* bytes (32 and 2 leave the same remainder modulo 3, so the encoded       *)
(* signature ends in a character with two spare bits, as the real one      *)
(* does).  Each byte is a keyed polynomial hash modulo a prime: no single  *)
(* bit change of the message leaves it unchanged.                          *)
(***************************************************************************)
\* sum of (data[i] + 1) * r^(hi - i) for i in lo..hi, and r^(hi - lo + 1),
\* both modulo p
RECURSIVE PolyFold(_, _, _, _, _)

PolyJoin(a, b, p) == [h |-> (a.h * b.pw + b.h) % p, pw |-> (a.pw * b.pw) % p]

PolyFold(data, lo, hi, r, p) ==
    IF lo > hi THEN [h |-> 0, pw |-> 1]
    ELSE IF lo = hi THEN [h |-> (data[lo] + 1) % p, pw |-> r % p]
    ELSE PolyJoin(PolyFold(data, lo, (lo + hi) \div 2, r, p),
                  PolyFold(data, (lo + hi) \div 2 + 1, hi, r, p), p)

PolySeed(h0, f, p) == (h0 * f.pw + f.h) % p

PolyHash(data, h0, r, p) == PolySeed(h0, PolyFold(data, 1, Len(data), r, p), p)

HashLanes(data) == <<PolyHash(data, 7, 31, 251), PolyHash(data, 11, 37, 241)>>

\* a digest that leaves the key out
hmac_digest_unkeyed(key, msg) == HashLanes(msg)

hmac_digest(key, msg) == HashLanes(key \o <<0>> \o msg)

\* hmac.compare_digest
compare_digest(a, b) == a = b

(***************************************************************************)
(* json.dumps(obj, separators=(',', ':')) and json.loads, for the JSON the *)
(* payloads use: an object or an array of scalars, or a scalar; strings    *)
(* without escapes; integers.                                              *)
(***************************************************************************)
RECURSIVE Digits(_)
Digits(n) == IF n < 10 THEN <<48 + n>> ELSE Append(Digits(n \div 10), 48 + (n % 10))

IntToStr(n) == IF n < 0 THEN <<45>> \o Digits(0 - n) ELSE Digits(n)

DumpScalar(v) ==
    CASE v.t = "none" -> <<110, 117, 108, 108>>
      [] v.t = "str"  -> <<34>> \o v.s \o <<34>>
      [] v.t = "int"  -> IntToStr(v.n)
      [] OTHER        -> IF v.n = 1 THEN <<116, 114, 117, 101>>
                         ELSE <<102, 97, 108, 115, 101>>

RECURSIVE DumpItems(_, _)
DumpItems(items, i) ==
    IF i > Len(items) THEN <<>>
    ELSE (IF i > 1 THEN <<44>> ELSE <<>>)
         \o <<34>> \o items[i][1] \o <<34, 58>> \o DumpScalar(items[i][2])
         \o DumpItems(items, i + 1)

RECURSIVE DumpElems(_, _)
DumpElems(elems, i) ==
    IF i > Len(elems) THEN <<>>
    ELSE (IF i > 1 THEN <<44>> ELSE <<>>) \o DumpScalar(elems[i]) \o DumpElems(elems, i + 1)

json_dumps(v) ==
    CASE v.t = "dict" -> <<123>> \o DumpItems(v.d, 1) \o <<125>>
      [] v.t = "list" -> <<91>> \o DumpElems(v.d, 1) \o <<93>>
      [] OTHER        -> DumpScalar(v)

\* a parse step: ok, the value read, and the index after it
Parsed(v, next) == [ok |-> TRUE, v |-> v, next |-> next]

ParseFail == [ok |-> FALSE, v |-> JSONDecodeError, next |-> 0]

At(str, i) == IF i >= 1 /\ i <= Len(str) THEN str[i] ELSE 0 - 1

RECURSIVE SkipWs(_, _)
SkipWs(str, i) ==
    IF At(str, i) \in {32, 9, 10, 13} THEN SkipWs(str, i + 1) ELSE i

\* i is the index after the opening quote
RECURSIVE ScanString(_, _, _)
ScanString(str, i, j) ==
    IF j > Len(str) \/ str[j] < 32 \/ str[j] = 92 THEN ParseFail
    ELSE IF str[j] = 34 THEN Parsed(PyStr(SubSeq(str, i, j - 1)), j + 1)
    ELSE ScanString(str, i, j + 1)

IsDigit(c) == c >= 48 /\ c <= 57

RECURSIVE ScanDigits(_, _, _)
ScanDigits(str, j, acc) ==
    IF IsDigit(At(str, j)) THEN ScanDigits(str, j + 1, acc * 10 + (str[j] - 48))
    ELSE Parsed(PyInt(acc), j)

Negated(r) == IF r.ok THEN Parsed(PyInt(0 - r.v.n), r.next) ELSE r

\* (0|[1-9][0-9]*)
ScanNatural(str, j) ==
    IF At(str, j) = 48 THEN Parsed(PyInt(0), j + 1)
    ELSE IF IsDigit(At(str, j)) THEN ScanDigits(str, j, 0)
    ELSE ParseFail

\* -?(0|[1-9][0-9]*)
ScanNumber(str, i) ==
    IF At(str, i) = 45 THEN Negated(ScanNatural(str, i + 1)) ELSE ScanNatural(str, i)

Literal(str, i, word, v) ==
    IF i + Len(word) - 1 <= Len(str) /\ SubSeq(str, i, i + Len(word) - 1) = word
    THEN Parsed(v, i + Len(word))
    ELSE ParseFail

ParseScalar(str, i) ==
    LET c == At(str, i)
    IN  CASE c = 34  -> ScanString(str, i + 1, i + 1)
          [] c = 110 -> Literal(str, i, <<110, 117, 108, 108>>, PyNone)
          [] c = 116 -> Literal(str, i, <<116, 114, 117, 101>>, PyBool(TRUE))
          [] c = 102 -> Literal(str, i, <<102, 97, 108, 115, 101>>, PyBool(FALSE))
          [] c = 45 \/ IsDigit(c) -> ScanNumber(str, i)
          [] OTHER   -> ParseFail

\* the members after '{' or ',': a key, ':', a value, then ',' or '}'.
\* A key that comes again replaces the value read before.
RECURSIVE ParseMembers(_, _, _)

MemberNext(str, dict, after) ==
    IF At(str, after) = 125 THEN Parsed(dict, after + 1)
    ELSE IF At(str, after) = 44 THEN ParseMembers(str, SkipWs(str, after + 1), dict)
    ELSE ParseFail

MemberValue(str, key, v, dict) ==
    IF ~v.ok THEN ParseFail
    ELSE MemberNext(str, DictSet(dict, key, v.v), SkipWs(str, v.next))

MemberColon(str, key, colon, dict) ==
    IF At(str, colon) /= 58 THEN ParseFail
    ELSE MemberValue(str, key, ParseScalar(str, SkipWs(str, colon + 1)), dict)

MemberKey(str, k, dict) ==
    IF ~k.ok THEN ParseFail
    ELSE MemberColon(str, k.v.s, SkipWs(str, k.next), dict)

\* i is at the opening quote of a key
ParseMembers(str, i, dict) ==
    IF At(str, i) /= 34 THEN ParseFail
    ELSE MemberKey(str, ScanString(str, i + 1, i + 1), dict)

RECURSIVE ParseElems(_, _, _)

ElemNext(str, elems, after) ==
    IF At(str, after) = 93 THEN Parsed(PyList(elems), after + 1)
    ELSE IF At(str, after) = 44 THEN ParseElems(str, SkipWs(str, after + 1), elems)
    ELSE ParseFail

ElemValue(str, v, elems) ==
    IF ~v.ok THEN ParseFail
    ELSE ElemNext(str, Append(elems, v.v), SkipWs(str, v.next))

ParseElems(str, i, elems) == ElemValue(str, ParseScalar(str, i), elems)

\* j is the index after the opening bracket and the white space
ParseOpened(str, i, j) ==
    IF At(str, i) = 123 THEN
        IF At(str, j) = 125 THEN Parsed(PyDict(<<>>), j + 1)
        ELSE ParseMembers(str, j, PyDict(<<>>))
    ELSE IF At(str, i) = 91 THEN
        IF At(str, j) = 93 THEN Parsed(PyList(<<>>), j + 1)
        ELSE ParseElems(str, j, <<>>)
    ELSE ParseScalar(str, i)

ParseValue(str, i) == ParseOpened(str, i, SkipWs(str, i + 1))

WholeInput(str, r) ==
    IF r.ok /\ SkipWs(str, r.next) = Len(str) + 1 THEN r.v ELSE JSONDecodeError

\* json.loads: one value, then nothing but white space
json_loads(str) == WholeInput(str, ParseValue(str, SkipWs(str, 1)))

(***************************************************************************)
(* str.encode('utf-8') and bytes.decode('utf-8')                           *)
(***************************************************************************)
EncodeChar(c) ==
    IF c < 128 THEN <<c>>
    ELSE IF c < 2048 THEN <<192 + c \div 64, 128 + (c % 64)>>
    ELSE IF c < 65536 THEN <<224 + c \div 4096, 128 + ((c \div 64) % 64), 128 + (c % 64)>>
    ELSE <<240 + c \div 262144, 128 + ((c \div 4096) % 64), 128 + ((c \div 64) % 64), 128 + (c % 64)>>

RECURSIVE Flatten(_, _, _)
Flatten(seqs, lo, hi) ==
    IF lo > hi THEN <<>>
    ELSE IF lo = hi THEN seqs[lo]
    ELSE Flatten(seqs, lo, (lo + hi) \div 2) \o Flatten(seqs, (lo + hi) \div 2 + 1, hi)

utf8_encode(str) ==
    IF \A i \in 1..Len(str) : str[i] < 128 THEN str
    ELSE Flatten([i \in 1..Len(str) |-> EncodeChar(str[i])], 1, Len(str))

RECURSIVE DecodeChars(_, _)

\* i is the index of the next byte above 127
DecodeCharsAt(b, from, i) ==
    IF i > Len(b) THEN SubSeq(b, from, i - 1)
    ELSE IF b[i] < 224 THEN
        SubSeq(b, from, i - 1) \o <<(b[i] - 192) * 64 + (b[i + 1] - 128)>>
        \o DecodeChars(b, i + 2)
    ELSE IF b[i] < 240 THEN
        SubSeq(b, from, i - 1)
        \o <<(b[i] - 224) * 4096 + (b[i + 1] - 128) * 64 + (b[i + 2] - 128)>>
        \o DecodeChars(b, i + 3)
    ELSE
        SubSeq(b, from, i - 1)
        \o <<(b[i] - 240) * 262144 + (b[i + 1] - 128) * 4096
             + (b[i + 2] - 128) * 64 + (b[i + 3] - 128)>>
        \o DecodeChars(b, i + 4)

DecodeChars(b, from) == DecodeCharsAt(b, from, NextHigh(b, from))

\* UnicodeDecodeError is ok = FALSE
utf8_decode(b) ==
    IF IsUtf8(b, 1) THEN [ok |-> TRUE, str |-> DecodeChars(b, 1)]
    ELSE [ok |-> FALSE, str |-> <<>>]

(***************************************************************************)
(* The session token                                                       *)
(***************************************************************************)
SESSION_ISSUER == <<108, 111, 103, 105, 110, 116, 101, 109, 112, 108, 97, 116, 101>>

KeySub == <<115, 117, 98>>

KeyEmail == <<101, 109, 97, 105, 108>>

KeyName == <<110, 97, 109, 101>>

KeyPicture == <<112, 105, 99, 116, 117, 114, 101>>

KeyIss == <<105, 115, 115>>

KeyExp == <<101, 120, 112>>

\* what a call gives back: a value, or an exception that leaves the function
Returned(v) == [kind |-> "return", v |-> v, exc |-> ""]

Raised(e) == [kind |-> "raise", v |-> PyNone, exc |-> e]

\* lines 107-110
SignBody(body, key) ==
    Returned(PyStr(base64url_encode(body) \o <<46>> \o base64url_encode(hmac_digest(key, body))))

\* a merge in which the caller's own iss and exp win
SessionPayload_caller_wins(payload, exp) ==
    DictUpdate(PyDict(<<<<KeyIss, PyStr(SESSION_ISSUER)>>, <<KeyExp, PyInt(exp)>>>>),
               payload.d, 1)

\* lines 105-106
SessionPayload(payload, exp) ==
    DictUpdate(payload, <<<<KeyIss, PyStr(SESSION_ISSUER)>>, <<KeyExp, PyInt(exp)>>>>, 1)

create_session_token(payload) ==
    IF ~Truthy(SESSION_SECRET) THEN Raised("RuntimeError")
    ELSE SignBody(utf8_encode(json_dumps(SessionPayload(payload, now + SESSION_MAX_AGE_MS))),
                  utf8_encode(SESSION_SECRET.s))

\* str.split(sep) from index i on: one part per separator, plus one
RECURSIVE split(_, _, _)
split(str, sep, i) ==
    LET seps == {j \in i..Len(str) : str[j] = sep}
        first == CHOOSE j \in seps : \A k \in seps : j <= k
    IN  IF seps = {} THEN <<SubSeq(str, i, Len(str))>>
        ELSE <<SubSeq(str, i, first - 1)>> \o split(str, sep, first + 1)

\* an expiry check that already rejects at the instant now = exp
CheckExp_early(parsed, exp) ==
    IF ~Truthy(exp) THEN Returned(PyNone)
    ELSE IF exp.t \notin {"int", "bool"} THEN Raised("TypeError")
    ELSE IF exp.n <= now THEN Returned(PyNone)
    ELSE Returned(parsed)

\* line 136
CheckExp(parsed, exp) ==
    IF ~Truthy(exp) THEN Returned(PyNone)
    ELSE IF exp.t \notin {"int", "bool"} THEN Raised("TypeError")
    ELSE IF exp.n < now THEN Returned(PyNone)
    ELSE Returned(parsed)

\* a payload inspection without the issuer check
InspectParsed_any_issuer(parsed) ==
    IF parsed = JSONDecodeError THEN Returned(PyNone)
    ELSE IF parsed.t /= "dict" THEN Raised("AttributeError")
    ELSE CheckExp(parsed, DictGet(parsed, KeyExp))

\* lines 132-138: what json.loads gave
InspectParsed(parsed) ==
    IF parsed = JSONDecodeError THEN Returned(PyNone)
    ELSE IF parsed.t /= "dict" THEN Raised("AttributeError")
    ELSE IF DictGet(parsed, KeyIss) /= PyStr(SESSION_ISSUER) THEN Returned(PyNone)
    ELSE CheckExp(parsed, DictGet(parsed, KeyExp))

\* lines 130-138: the payload is looked at once the signature has matched
InspectPayload(body) == InspectParsed(json_loads(body))

\* a verification that looks into the payload before it compares signatures
CheckSignature_late(body, signature) ==
    IF InspectPayload(body).kind = "raise" THEN InspectPayload(body)
    ELSE IF ~compare_digest(hmac_digest(utf8_encode(SESSION_SECRET.s), utf8_encode(body)),
                            signature)
    THEN Returned(PyNone)
    ELSE InspectPayload(body)

\* lines 125-129
CheckSignature(body, signature) ==
    IF ~compare_digest(hmac_digest(utf8_encode(SESSION_SECRET.s), utf8_encode(body)),
                       signature)
    THEN Returned(PyNone)
    ELSE InspectPayload(body)

\* lines 120-124: either decoding step may raise
CheckDecoded(body, signature) ==
    IF ~body.ok \/ ~signature.ok THEN Returned(PyNone)
    ELSE CheckSignature(body.str, signature.bytes)

DecodeBody(body_bytes) ==
    IF body_bytes.ok THEN utf8_decode(body_bytes.bytes) ELSE [ok |-> FALSE, str |-> <<>>]

\* lines 116-119
CheckParts(parts) ==
    IF Len(parts) /= 2 THEN Returned(PyNone)
    ELSE CheckDecoded(DecodeBody(base64url_decode_bytes(parts[1])),
                      base64url_decode_bytes(parts[2]))

verify_session_token(token) ==
    IF ~Truthy(token) \/ ~Truthy(SESSION_SECRET) THEN Returned(PyNone)
    ELSE CheckParts(split(token.s, 46, 1))


(***************************************************************************)
(* Bounds and the inputs drawn from them                                   *)
(***************************************************************************)
\* the clock runs from 1 to MaxTime
MaxTime == 3

\* the configured TTL is one of -1 .. MaxTTL
MaxTTL == 1

K1 == <<107, 49>>

K2 == <<107, 50>>

\* unset, empty, and two keys
Secrets == {PyNone, PyStr(<<>>), PyStr(K1), PyStr(K2)}

TTLs == (0 - 1)..MaxTTL

\* the identity record auth_google builds from the verified Google payload
User(sub, email) ==
    PyDict(<<<<KeySub, PyStr(sub)>>, <<KeyEmail, email>>,
             <<KeyName, PyNone>>, <<KeyPicture, PyNone>>>>)

\* u1 with A@X.com, u2 with a@y.com, u3 without email
UserAdmin == User(<<117, 49>>, PyStr(<<65, 64, 88, 46, 99, 111, 109>>))

UserPlain == User(<<117, 50>>, PyStr(<<97, 64, 121, 46, 99, 111, 109>>))

UserNoEmail == User(<<117, 51>>, PyNone)

Payloads == {UserAdmin, UserNoEmail}

(***************************************************************************)
(* Calls and their outcomes                                                *)
(***************************************************************************)
Idle ==
    [op |-> "idle", token |-> PyNone, payload |-> PyNone, body |-> <<>>, kind |-> "",
     fetched |-> Returned(PyNone), listed |-> "", recorded |-> ""]

NoResp ==
    [result |-> Returned(PyNone), status |-> 0, entered |-> FALSE, g_user |-> PyNone,
     set_cookie |-> PyNone, max_age |-> 0, effects |-> {}, error |-> "", rows |-> {}]

\* the token the client holds, what went into it, and whether it was ever
\* rejected under the secret that signed it, and whether a response has since
\* told the browser to discard the cookie (the token itself stays known to
\* whoever holds a copy)
EmptyJar ==
    [token |-> PyNone, payload |-> PyNone, secret |-> PyNone, at |-> 0, rejected |-> FALSE,
     cleared |-> FALSE]

\* the caller keeps the token it was given, with what went into it
Keep(payload, r) ==
    /\ req' = [Idle EXCEPT !.op = "create_session_token", !.payload = payload]
    /\ resp' = [NoResp EXCEPT !.result = r]
    /\ jar' = IF r.kind = "return"
              THEN [token |-> r.v, payload |-> payload, secret |-> SESSION_SECRET, at |-> now,
                    rejected |-> FALSE, cleared |-> FALSE]
              ELSE jar

Issue(payload) ==
    /\ req.op = "idle"
    /\ Keep(payload, create_session_token(payload))
    /\ UNCHANGED <<config, now, db, calls>>

\* verify_session_token is called with a token
Present(token, payload, body, kind) ==
    /\ req' = [Idle EXCEPT !.op = "verify_session_token", !.token = token,
                        !.payload = payload, !.body = body, !.kind = kind]
    /\ resp' = [NoResp EXCEPT !.result = verify_session_token(token)]

\* the token that was issued is presented
Verify ==
    /\ req.op = "idle"
    /\ jar.token /= PyNone
    /\ Present(jar.token, PyNone, <<>>, "issued")
    /\ jar' = [jar EXCEPT !.rejected =
                   @ \/ (jar.secret = SESSION_SECRET /\ resp'.result = Returned(PyNone))]
    /\ UNCHANGED <<config, now, db, calls>>

\* the clock only moves forward
Tick ==
    /\ req.op = "idle"
    /\ now < MaxTime
    /\ now' = now + 1
    /\ UNCHANGED <<config, jar, db, req, resp, calls>>

\* the process is restarted with another AUTH_SESSION_SECRET
Rotate(value) ==
    /\ req.op = "idle"
    /\ value /= SESSION_SECRET
    /\ SESSION_SECRET' = value
    /\ UNCHANGED <<SESSION_MAX_AGE_MS, GOOGLE_CLIENT_ID, ADMIN_EMAILS, PAYPAL_CONFIGURED,
                   SUBSCRIPTIONS_DB_READY, now, jar, db, req, resp, calls>>

\* the call has returned
Done ==
    /\ req.op /= "idle"
    /\ req' = Idle
    /\ resp' = NoResp
    /\ UNCHANGED <<config, now, jar, db, calls>>

(***************************************************************************)
(* Tokens that create_session_token did not make                           *)
(***************************************************************************)
\* a key the payload does not have
Absent == [t |-> "absent", s |-> <<>>, n |-> 0, d |-> <<>>]

Item(k, v) == IF v = Absent THEN <<>> ELSE <<<<k, v>>>>

\* {"sub":"u9","iss":...,"exp":...}
ForgedPayload(iss, exp) ==
    PyDict(<<<<KeySub, PyStr(<<117, 57>>)>>>> \o Item(KeyIss, iss) \o Item(KeyExp, exp))

\* the right issuer, "evil", or none
IssChoices == {PyStr(SESSION_ISSUER), PyStr(<<101, 118, 105, 108>>), Absent}

\* none, null, the string "9", and every instant up to one past the clock
ExpChoices == {Absent, PyNone, PyStr(<<57>>)} \cup {PyInt(n) : n \in 0..(MaxTime + 1)}

\* JSON that is no object: [] 5 "x" null true
NonObjects == {<<91, 93>>, <<53>>, <<34, 120, 34>>, <<110, 117, 108, 108>>,
               <<116, 114, 117, 101>>}

\* bytes that are no JSON: { and {"a"} and nothing, and a byte that is no UTF-8
NotJson == {<<123>>, <<123, 34, 97, 34, 125>>, <<>>, <<255>>}

\* the key of somebody who does not know the secret
AttackerKey == <<120>>

\* payload bytes under a signature made with key
ForgeToken(body, key) ==
    PyStr(base64url_encode(body) \o <<46>> \o base64url_encode(hmac_digest(key, body)))

SigningKey(signed) == IF signed THEN utf8_encode(SESSION_SECRET.s) ELSE AttackerKey

PresentForged(payload, body, signed) ==
    Present(ForgeToken(body, SigningKey(signed)), payload, body,
            IF signed THEN "signed" ELSE "unsigned")

PresentObject(payload, signed) ==
    PresentForged(payload, utf8_encode(json_dumps(payload)), signed)

\* a JSON object signed with the current secret, or with another key
VerifyForgedObject(iss, exp, signed) ==
    /\ req.op = "idle"
    /\ signed => Truthy(SESSION_SECRET)
    /\ PresentObject(ForgedPayload(iss, exp), signed)
    /\ UNCHANGED <<config, now, jar, db, calls>>

\* payload bytes that are no JSON object
VerifyForgedBytes(body, signed) ==
    /\ req.op = "idle"
    /\ signed => Truthy(SESSION_SECRET)
    /\ PresentForged(PyNone, body, signed)
    /\ UNCHANGED <<config, now, jar, db, calls>>

\* no cookie, '', YQ (no separator), YQ.YQ.YQ (two), !!.?? and A.B and a
\* segment with a code point above 127 (no base64url)
MalformedTokens ==
    {PyNone, PyStr(<<>>), PyStr(<<89, 81>>), PyStr(<<89, 81, 46, 89, 81, 46, 89, 81>>),
     PyStr(<<33, 33, 46, 63, 63>>), PyStr(<<65, 46, 66>>), PyStr(<<233, 46, 89, 81>>)}

VerifyMalformed(token) ==
    /\ req.op = "idle"
    /\ Present(token, PyNone, <<>>, "malformed")
    /\ UNCHANGED <<config, now, jar, db, calls>>

\* bit b of the code point c inverted
Flip(c, b) == IF (c \div (2 ^ b)) % 2 = 1 THEN c - 2 ^ b ELSE c + 2 ^ b

\* the index of the first separator of a token
DotAt(str) == CHOOSE i \in 1..Len(str) : str[i] = 46 /\ \A j \in 1..(i - 1) : str[j] /= 46

\* which part of the token character i is in
Segment(i, dot) ==
    IF i < dot THEN "tampered payload"
    ELSE IF i > dot THEN "tampered signature"
    ELSE "tampered separator"

\* the issued token is presented with bit b of character i inverted
Tamper(i, b) ==
    /\ req.op = "idle"
    /\ jar.token /= PyNone
    /\ i \in 1..Len(jar.token.s)
    /\ Present(PyStr([jar.token.s EXCEPT ![i] = Flip(jar.token.s[i], b)]), PyNone,
               <<i, b>>, Segment(i, DotAt(jar.token.s)))
    /\ UNCHANGED <<config, now, jar, db, calls>>

(***************************************************************************)
(* The session gate and the routes                                         *)
(***************************************************************************)
\* what str.strip() removes
IsSpace(c) == c \in (9..13) \cup (28..32) \cup {133, 160}

strip(str) ==
    LET kept == {i \in 1..Len(str) : ~IsSpace(str[i])}
    IN  IF kept = {} THEN <<>>
        ELSE SubSeq(str, CHOOSE i \in kept : \A j \in kept : i <= j,
                         CHOOSE i \in kept : \A j \in kept : j <= i)

\* str.lower() and str.upper() on ASCII text
lower(str) == [i \in 1..Len(str) |-> IF str[i] \in 65..90 THEN str[i] + 32 ELSE str[i]]

upper(str) == [i \in 1..Len(str) |-> IF str[i] \in 97..122 THEN str[i] - 32 ELSE str[i]]

\* (value or fallback) for a value that is None or text
StrOr(value, fallback) == IF Truthy(value) THEN value.s ELSE fallback

StripAll(parts) == [i \in 1..Len(parts) |-> strip(parts[i])]

NonEmpty(part) == part /= <<>>

\* the stripped, non-empty parts of a comma separated setting
parse_origins(raw) == SelectSeq(StripAll(split(StrOr(raw, <<>>), 44, 1)), NonEmpty)

\* set(list)
set(list) == {list[i] : i \in 1..Len(list)}

RECURSIVE DigitsValue(_, _, _)
DigitsValue(str, i, acc) ==
    IF i > Len(str) THEN acc ELSE DigitsValue(str, i + 1, acc * 10 + (str[i] - 48))

\* int(text): an optional sign and digits, white space around them allowed
IntOfText(body, fallback) ==
    LET digits == IF body /= <<>> /\ body[1] \in {43, 45} THEN Tail(body) ELSE body
    IN  IF digits = <<>> \/ \E i \in 1..Len(digits) : ~IsDigit(digits[i]) THEN fallback
        ELSE IF body[1] = 45 THEN 0 - DigitsValue(digits, 1, 0)
        ELSE DigitsValue(digits, 1, 0)

parse_number(value, fallback) ==
    IF value.t \in {"int", "bool"} THEN value.n
    ELSE IF value.t = "str" THEN IntOfText(strip(value.s), fallback)
    ELSE fallback

\* int(x / 1000): the quotient rounded towards zero
IntDiv(x, d) == IF x >= 0 THEN x \div d ELSE 0 - ((0 - x) \div d)

\* jsonify(...), status
Answer(status, error, effects) ==
    [NoResp EXCEPT !.status = status, !.error = error, !.effects = effects]

\* an exception no handler catches: Flask answers 500
Unhandled(e) == [NoResp EXCEPT !.status = 500, !.result = Raised(e)]

get_session_from_request(cookie) == verify_session_token(cookie)

set_session_cookie(response, token, clear) ==
    [response EXCEPT !.set_cookie = IF clear THEN PyStr(<<>>) ELSE token,
                     !.max_age = IF clear THEN 0 ELSE IntDiv(SESSION_MAX_AGE_MS, 1000)]

\* an allow-list check that compares the email as it is written
is_admin_exact(session) ==
    IF ~Truthy(session) THEN Returned(PyBool(FALSE))
    ELSE IF ~Truthy(DictGet(session, KeyEmail)) THEN Returned(PyBool(FALSE))
    ELSE IF ADMIN_EMAILS = {} THEN Returned(PyBool(FALSE))
    ELSE IF DictGet(session, KeyEmail).t /= "str" THEN Raised("AttributeError")
    ELSE Returned(PyBool(DictGet(session, KeyEmail).s \in ADMIN_EMAILS))

is_admin(session) ==
    IF ~Truthy(session) THEN Returned(PyBool(FALSE))
    ELSE IF ~Truthy(DictGet(session, KeyEmail)) THEN Returned(PyBool(FALSE))
    ELSE IF ADMIN_EMAILS = {} THEN Returned(PyBool(FALSE))
    ELSE IF DictGet(session, KeyEmail).t /= "str" THEN Raised("AttributeError")
    ELSE Returned(PyBool(lower(DictGet(session, KeyEmail).s)
                         \in {lower(value) : value \in ADMIN_EMAILS}))

paypal_configured == PAYPAL_CONFIGURED

\* session: what get_session_from_request gives; fn: the answer of the
\* decorated function.  The function runs with g.user set, or not at all
require_auth(session, fn) ==
    IF session.kind = "raise" THEN Unhandled(session.exc)
    ELSE IF ~Truthy(session.v) THEN Answer(401, "Authentication required", {})
    ELSE [fn EXCEPT !.entered = TRUE, !.g_user = session.v]

\* the first statement of both admin routes
AdminOnly(admin, inner) ==
    IF admin.kind = "raise" THEN Unhandled(admin.exc)
    ELSE IF ~Truthy(admin.v) THEN Answer(403, "Admin access required", {})
    ELSE inner

\* listed: whether list_subscription_plans() returns or raises
admin_plans(session, listed) ==
    require_auth(session,
        AdminOnly(is_admin(session.v),
            IF ~SUBSCRIPTIONS_DB_READY
            THEN Answer(500, "Subscriptions database not available", {})
            ELSE IF listed = "raise"
            THEN Answer(500, "Unable to load plans", {"list_subscription_plans"})
            ELSE [Answer(200, "", {"list_subscription_plans"}) EXCEPT !.rows = plans]))

KeyProductName == <<112, 114, 111, 100, 117, 99, 116, 78, 97, 109, 101>>

KeyPlanName == <<112, 108, 97, 110, 78, 97, 109, 101>>

KeyPrice == <<112, 114, 105, 99, 101>>

KeyIntervalCount == <<105, 110, 116, 101, 114, 118, 97, 108, 67, 111, 117, 110, 116>>

KeyIntervalUnit == <<105, 110, 116, 101, 114, 118, 97, 108, 85, 110, 105, 116>>

KeyCredential == <<99, 114, 101, 100, 101, 110, 116, 105, 97, 108>>

product_name(payload) == strip(StrOr(DictGet(payload, KeyProductName), <<>>))

plan_name(payload) ==
    IF strip(StrOr(DictGet(payload, KeyPlanName), <<>>)) /= <<>>
    THEN strip(StrOr(DictGet(payload, KeyPlanName), <<>>))
    ELSE product_name(payload)

interval_unit(payload) == upper(strip(StrOr(DictGet(payload, KeyIntervalUnit), <<77, 79, 78, 84, 72>>)))

interval_count(payload) == parse_number(DictGet(payload, KeyIntervalCount), 1)

\* str(price or '').strip()
price_value(payload) ==
    IF ~Truthy(DictGet(payload, KeyPrice)) THEN <<>>
    ELSE IF DictGet(payload, KeyPrice).t = "int" THEN IntToStr(DictGet(payload, KeyPrice).n)
    ELSE strip(DictGet(payload, KeyPrice).s)

allowed_units == {<<68, 65, 89>>, <<87, 69, 69, 75>>, <<77, 79, 78, 84, 72>>, <<89, 69, 65, 82>>}

\* lines 539-574.  paypal: "product fails", "plan fails", or the id of the
\* plan PayPal made; recorded: whether record_subscription_plan returns
CreatePlan(paypal, recorded) ==
    IF paypal = "product fails"
    THEN Answer(502, "PayPal plan creation failed", {"create_paypal_product"})
    ELSE IF paypal = "plan fails"
    THEN Answer(502, "PayPal plan creation failed",
                {"create_paypal_product", "create_paypal_plan"})
    ELSE IF recorded = "raise"
    THEN Answer(500, "Failed to record plan",
                {"create_paypal_product", "create_paypal_plan", "record_subscription_plan"})
    ELSE Answer(200, "",
                {"create_paypal_product", "create_paypal_plan", "record_subscription_plan"})

\* payload: request.get_json(silent=True) or {}
admin_create_plan(session, payload, paypal, recorded) ==
    require_auth(session, AdminOnly(is_admin(session.v),
        IF ~PAYPAL_CONFIGURED THEN Answer(500, "PayPal credentials are missing", {})
        ELSE IF ~SUBSCRIPTIONS_DB_READY
        THEN Answer(500, "Subscriptions database not available", {})
        ELSE IF product_name(payload) = <<>> THEN Answer(400, "Product name is required", {})
        ELSE IF plan_name(payload) = <<>> THEN Answer(400, "Plan name is required", {})
        ELSE IF price_value(payload) = <<>> THEN Answer(400, "Price is required", {})
        ELSE IF interval_count(payload) <= 0
        THEN Answer(400, "Interval count must be at least 1", {})
        ELSE IF interval_unit(payload) \notin allowed_units
        THEN Answer(400, "Interval unit must be DAY, WEEK, MONTH, or YEAR", {})
        ELSE CreatePlan(paypal, recorded)))

\* INSERT ... ON CONFLICT (paypal_plan_id) DO UPDATE
record_subscription_plan(user, plan_id) ==
    {row \in plans : row.paypal_plan_id /= plan_id}
        \cup {[paypal_plan_id |-> plan_id, created_by_email |-> DictGet(user, KeyEmail)]}

secret(session) == require_auth(session, Answer(200, "", {}))

\* lines 381-386
GoogleUser(token_payload) ==
    PyDict(<<<<KeySub, DictGet(token_payload, KeySub)>>,
             <<KeyEmail, DictGet(token_payload, KeyEmail)>>,
             <<KeyName, DictGet(token_payload, KeyName)>>,
             <<KeyPicture, DictGet(token_payload, KeyPicture)>>>>)

\* lines 387-392: an exception of create_session_token is caught as well
SessionResponse(token) ==
    IF token.kind = "raise"
    THEN Answer(401, "Google authentication failed", {"verify_oauth2_token"})
    ELSE set_session_cookie(Answer(200, "", {"verify_oauth2_token"}), token.v, FALSE)

\* lines 369-392.  verified: what id_token.verify_oauth2_token gives
GoogleLogin(credential, verified) ==
    IF ~Truthy(credential) \/ credential.t /= "str"
    THEN Answer(400, "Missing Google credential", {})
    ELSE IF verified.kind = "raise"
    THEN Answer(401, "Google authentication failed", {"verify_oauth2_token"})
    ELSE IF ~Truthy(verified.v)
    THEN Answer(401, "Invalid Google credential", {"verify_oauth2_token"})
    ELSE SessionResponse(create_session_token(GoogleUser(verified.v)))

\* a login route that does not look at the secret first
auth_google_unguarded(payload, verified) ==
    IF ~Truthy(GOOGLE_CLIENT_ID) THEN Answer(500, "Google auth not configured", {})
    ELSE GoogleLogin(DictGet(IF Truthy(payload) THEN payload ELSE PyDict(<<>>), KeyCredential),
                     verified)

auth_google(payload, verified) ==
    IF ~Truthy(GOOGLE_CLIENT_ID) THEN Answer(500, "Google auth not configured", {})
    ELSE IF ~Truthy(SESSION_SECRET) THEN Answer(500, "Missing AUTH_SESSION_SECRET", {})
    ELSE GoogleLogin(DictGet(IF Truthy(payload) THEN payload ELSE PyDict(<<>>), KeyCredential),
                     verified)

\* a logout that leaves the cookie alone
auth_logout_silent == Answer(200, "", {})

auth_logout == set_session_cookie(Answer(200, "", {}), PyStr(<<>>), TRUE)

(***************************************************************************)
(* Requests                                                                *)
(***************************************************************************)
\* what Google's verifier gives for a credential: an exception, nothing, or
\* the identity with Google's own iss beside it
GoogleIdentity(user) == Returned(DictSet(user, KeyIss, PyStr(<<103>>)))

Verified == {Raised("ValueError"), Returned(PyDict(<<>>))}
                \cup {GoogleIdentity(user) : user \in {UserAdmin, UserPlain, UserNoEmail}}

\* request bodies of the login route: none, no credential, a number, a credential
Credentials ==
    {PyNone, PyDict(<<<<KeyCredential, PyStr(<<>>)>>>>),
     PyDict(<<<<KeyCredential, PyInt(5)>>>>),
     PyDict(<<<<KeyCredential, PyStr(<<99, 114, 101, 100>>)>>>>)}

\* the browser keeps the cookie the response sets
AuthGoogle(payload, verified) ==
    /\ req.op = "idle"
    /\ req' = [Idle EXCEPT !.op = "auth_google", !.payload = payload]
    /\ resp' = auth_google(payload, verified)
    /\ jar' = IF resp'.set_cookie /= PyNone
              THEN [token |-> resp'.set_cookie, payload |-> GoogleUser(verified.v),
                    secret |-> SESSION_SECRET, at |-> now, rejected |-> FALSE,
                    cleared |-> FALSE]
              ELSE jar
    /\ UNCHANGED <<config, now, db, calls>>

\* the cookies a request may carry: none, the one the browser keeps, the
\* admin's claims under a key that is not the secret, and the JSON text []
\* under a signature made with the secret
CookieKinds == {"none", "issued", "unsigned", "signed"}

AdminClaims == SessionPayload(UserAdmin, MaxTime + 1)

Cookie(kind) ==
    CASE kind = "none" -> PyNone
      [] kind = "issued" -> jar.token
      [] kind = "unsigned" -> ForgeToken(utf8_encode(json_dumps(AdminClaims)), AttackerKey)
      [] kind = "signed" ->
           IF Truthy(SESSION_SECRET)
           THEN ForgeToken(<<91, 93>>, utf8_encode(SESSION_SECRET.s))
           ELSE PyNone

Arrive(op, kind, payload) ==
    req' = [Idle EXCEPT !.op = op, !.token = Cookie(kind), !.kind = kind,
                        !.payload = payload]

\* GET /api/secret
Secret(kind) ==
    /\ req.op = "idle"
    /\ Arrive("secret", kind, PyNone)
    /\ resp' = secret(get_session_from_request(Cookie(kind)))
    /\ UNCHANGED <<config, now, jar, db, calls>>

\* GET /api/admin/plans
AdminPlans(kind, listed) ==
    /\ req.op = "idle"
    /\ Arrive("admin_plans", kind, PyNone)
    /\ resp' = admin_plans(get_session_from_request(Cookie(kind)), listed)
    /\ UNCHANGED <<config, now, jar, db, calls>>

Plan(items) == PyDict(items)

\* request bodies of the plan route: a plan with every field, one that
\* leaves interval and unit to their defaults, and one per refusal
GoodPlan ==
    Plan(<<<<KeyProductName, PyStr(<<80>>)>>, <<KeyPrice, PyStr(<<53>>)>>,
           <<KeyIntervalCount, PyStr(<<50>>)>>, <<KeyIntervalUnit, PyStr(<<119, 101, 101, 107>>)>>>>)

PlanBodies ==
    {GoodPlan,
     Plan(<<<<KeyProductName, PyStr(<<32, 80, 32>>)>>, <<KeyPrice, PyInt(5)>>>>),
     PyNone,
     Plan(<<<<KeyProductName, PyStr(<<80>>)>>>>),
     Plan(<<<<KeyProductName, PyStr(<<80>>)>>, <<KeyPrice, PyStr(<<53>>)>>,
            <<KeyIntervalCount, PyInt(0)>>>>),
     Plan(<<<<KeyProductName, PyStr(<<80>>)>>, <<KeyPrice, PyStr(<<53>>)>>,
            <<KeyIntervalUnit, PyStr(<<101, 111, 110>>)>>>>)}

PlanId == <<80, 45, 49>>

\* every body with PayPal and the database working, and the plan with every
\* field with each of them failing
PlanCases ==
    {[payload |-> payload, paypal |-> "plan made", recorded |-> "return"] :
        payload \in PlanBodies}
    \cup {[payload |-> GoodPlan, paypal |-> "product fails", recorded |-> "return"],
          [payload |-> GoodPlan, paypal |-> "plan fails", recorded |-> "return"],
          [payload |-> GoodPlan, paypal |-> "plan made", recorded |-> "raise"]}

\* POST /api/admin/plans/create
AdminCreatePlan(kind, payload, paypal, recorded) ==
    /\ req.op = "idle"
    /\ Arrive("admin_create_plan", kind, payload)
    /\ resp' = admin_create_plan(get_session_from_request(Cookie(kind)),
                                  IF Truthy(payload) THEN payload ELSE PyDict(<<>>),
                                  paypal, recorded)
    /\ plans' = IF resp'.status = 200
                THEN record_subscription_plan(resp'.g_user, PlanId)
                ELSE plans
    /\ UNCHANGED <<config, now, jar, signups, calls>>

\* claims is_admin may be asked about: none, empty, without email, with an
\* empty email, and three addresses
Sessions ==
    {PyNone, PyDict(<<>>), PyDict(<<<<KeySub, PyStr(<<117>>)>>>>),
     User(<<117>>, PyStr(<<>>)), UserNoEmail, UserAdmin, UserPlain,
     User(<<117, 52>>, PyStr(<<98, 64, 122, 46, 99, 111, 109>>))}

IsAdmin(session) ==
    /\ req.op = "idle"
    /\ req' = [Idle EXCEPT !.op = "is_admin", !.payload = session]
    /\ resp' = [NoResp EXCEPT !.result = is_admin(session)]
    /\ UNCHANGED <<config, now, jar, db, calls>>

\* values of the ADMIN_EMAILS setting: unset, one address, and two with blanks
\* and an empty part around them
AdminSettings == {PyNone, PyStr(<<97, 64, 120, 46, 99, 111, 109>>), PyStr(<<32, 66, 64, 90, 46, 99, 111, 109, 32, 44, 32, 97, 64, 120, 46, 99, 111, 109, 44>>)}

InitRest ==
    /\ GOOGLE_CLIENT_ID = PyNone
    /\ ADMIN_EMAILS = {}
    /\ PAYPAL_CONFIGURED = FALSE
    /\ SUBSCRIPTIONS_DB_READY = FALSE
    /\ now = 1
    /\ jar = EmptyJar
    /\ plans = {}
    /\ signups = {}
    /\ calls = <<>>
    /\ req = Idle
    /\ resp = NoResp

Init ==
    /\ SESSION_SECRET \in Secrets
    /\ SESSION_MAX_AGE_MS \in TTLs
    /\ InitRest

Next ==
    \/ \E payload \in Payloads : Issue(payload)
    \/ Verify
    \/ Tick
    \/ \E value \in Secrets : Rotate(value)
    \/ Done

Spec == Init /\ [][Next]_vars

\* forged and malformed tokens against one secret
InitForge ==
    /\ SESSION_SECRET \in {PyNone, PyStr(K1)}
    /\ SESSION_MAX_AGE_MS \in TTLs
    /\ InitRest

NextForge ==
    \/ \E payload \in Payloads : Issue(payload)
    \/ Verify
    \/ \E iss \in IssChoices, exp \in ExpChoices, signed \in BOOLEAN :
          VerifyForgedObject(iss, exp, signed)
    \/ \E body \in NonObjects \cup NotJson, signed \in BOOLEAN :
          VerifyForgedBytes(body, signed)
    \/ \E token \in MalformedTokens : VerifyMalformed(token)
    \/ Tick
    \/ Done

SpecForge == InitForge /\ [][NextForge]_vars

\* issued tokens with one bit inverted
InitTamper ==
    /\ SESSION_SECRET = PyStr(K1)
    /\ SESSION_MAX_AGE_MS \in 1..MaxTTL
    /\ InitRest

\* the longest token the model issues
MaxTokenLen == 130

NextTamper ==
    \/ \E payload \in {UserAdmin, UserPlain, UserNoEmail} : Issue(payload)
    \/ \E i \in 1..MaxTokenLen, b \in 0..7 : Tamper(i, b)
    \/ Done

SpecTamper == InitTamper /\ [][NextTamper]_vars

\* the login route and create_session_token under every kind of secret
InitLogin ==
    /\ SESSION_SECRET \in Secrets
    /\ SESSION_MAX_AGE_MS \in TTLs
    /\ GOOGLE_CLIENT_ID \in {PyNone, PyStr(<<99, 105, 100>>)}
    /\ ADMIN_EMAILS = {}
    /\ PAYPAL_CONFIGURED = FALSE
    /\ SUBSCRIPTIONS_DB_READY = FALSE
    /\ now = 1
    /\ jar = EmptyJar
    /\ plans = {}
    /\ signups = {}
    /\ calls = <<>>
    /\ req = Idle
    /\ resp = NoResp

NextLogin ==
    \/ \E payload \in Credentials, verified \in Verified : AuthGoogle(payload, verified)
    \/ \E payload \in Payloads : Issue(payload)
    \/ Tick
    \/ Done

SpecLogin == InitLogin /\ [][NextLogin]_vars

\* the routes behind require_auth
InitGate ==
    /\ SESSION_SECRET \in {PyNone, PyStr(K1)}
    /\ SESSION_MAX_AGE_MS = MaxTTL
    /\ GOOGLE_CLIENT_ID = PyStr(<<99, 105, 100>>)
    /\ \E raw \in AdminSettings : ADMIN_EMAILS = set(parse_origins(raw))
    /\ PAYPAL_CONFIGURED \in BOOLEAN
    /\ SUBSCRIPTIONS_DB_READY \in BOOLEAN
    /\ now = 1
    /\ jar = EmptyJar
    /\ plans = {}
    /\ signups = {}
    /\ calls = <<>>
    /\ req = Idle
    /\ resp = NoResp

NextGate ==
    \/ \E verified \in Verified :
          AuthGoogle(PyDict(<<<<KeyCredential, PyStr(<<99, 114, 101, 100>>)>>>>), verified)
    \/ \E kind \in CookieKinds : Secret(kind)
    \/ \E kind \in CookieKinds, listed \in {"return", "raise"} : AdminPlans(kind, listed)
    \/ \E kind \in CookieKinds, case \in PlanCases :
          AdminCreatePlan(kind, case.payload, case.paypal, case.recorded)
    \/ \E session \in Sessions : IsAdmin(session)
    \/ Tick
    \/ Done

SpecGate == InitGate /\ [][NextGate]_vars

\* payloads of a caller that brings its own iss, exp or both, in front of or
\* behind the other fields, and one with a field the login route never writes
KeyRole == <<114, 111, 108, 101>>

Evil == PyStr(<<101, 118, 105, 108>>)

CallerPayloads ==
    {UserPlain,
     DictSet(UserAdmin, KeyIss, Evil),
     DictSet(UserAdmin, KeyExp, PyInt(99)),
     DictSet(DictSet(UserNoEmail, KeyExp, PyStr(<<57>>)), KeyIss, PyNone),
     PyDict(<<<<KeyExp, PyInt(0)>>, <<KeyIss, Evil>>, <<KeySub, PyStr(<<117>>)>>,
              <<KeyRole, PyBool(TRUE)>>>>),
     PyDict(<<>>)}

\* create_session_token called with payloads of every shape
InitIssue ==
    /\ SESSION_SECRET \in Secrets
    /\ SESSION_MAX_AGE_MS \in TTLs
    /\ InitRest

NextIssue ==
    \/ \E payload \in CallerPayloads : Issue(payload)
    \/ Verify
    \/ Tick
    \/ Done

SpecIssue == InitIssue /\ [][NextIssue]_vars

\* POST /api/auth/logout: the server changes nothing of its own
AuthLogout ==
    /\ req.op = "idle"
    /\ req' = [Idle EXCEPT !.op = "auth_logout"]
    /\ resp' = auth_logout
    /\ jar' = [jar EXCEPT !.cleared = resp'.set_cookie = PyStr(<<>>) /\ resp'.max_age = 0]
    /\ UNCHANGED <<config, now, db, calls>>

\* a login from another browser: the holder of the token keeps what it has
LoginElsewhere(payload, verified) ==
    /\ req.op = "idle"
    /\ req' = [Idle EXCEPT !.op = "auth_google", !.payload = payload]
    /\ resp' = auth_google(payload, verified)
    /\ UNCHANGED <<config, now, jar, db, calls>>

\* logins, logouts and requests that present the token again
InitLogout ==
    /\ SESSION_SECRET \in {PyStr(K1), PyStr(K2)}
    /\ SESSION_MAX_AGE_MS \in 0..MaxTTL
    /\ GOOGLE_CLIENT_ID = PyStr(<<99, 105, 100>>)
    /\ ADMIN_EMAILS = {}
    /\ PAYPAL_CONFIGURED = FALSE
    /\ SUBSCRIPTIONS_DB_READY = FALSE
    /\ now = 1
    /\ jar = EmptyJar
    /\ plans = {}
    /\ signups = {}
    /\ calls = <<>>
    /\ req = Idle
    /\ resp = NoResp

NextLogout ==
    \/ \E verified \in Verified :
          AuthGoogle(PyDict(<<<<KeyCredential, PyStr(<<99, 114, 101, 100>>)>>>>), verified)
    \/ \E verified \in Verified :
          LoginElsewhere(PyDict(<<<<KeyCredential, PyStr(<<99, 114, 101, 100>>)>>>>), verified)
    \/ AuthLogout
    \/ Verify
    \/ \E kind \in {"none", "issued"} : Secret(kind)
    \/ Tick
    \/ Done

SpecLogout == InitLogout /\ [][NextLogout]_vars

\* how many calls run side by side
NCalls == 2

\* the claims of call t: sub "u" and the digit t, no email
ClaimsOf(t) == User(<<117, 48 + t>>, PyNone)

\* the locals of a call that has not begun
NoCall(t) ==
    [pc |-> "start", payload |-> ClaimsOf(t), exp |-> 0, token |-> PyNone,
     body |-> [ok |-> FALSE, str |-> <<>>], signature |-> <<>>,
     result |-> Returned(PyNone)]

\* a call's locals are shared with every other call
LocalBody_shared(t) == calls[1].body

\* line 121: body is a local of the call
LocalBody(t) == calls[t].body

Finish(t, r) == calls' = [calls EXCEPT ![t].pc = "done", ![t].result = r]

\* lines 102-104: the secret is looked at and the clock read
CreateBegin(t) ==
    /\ calls[t].pc = "start"
    /\ IF ~Truthy(SESSION_SECRET) THEN Finish(t, Raised("RuntimeError"))
       ELSE calls' = [calls EXCEPT ![t].pc = "created",
                                   ![t].exp = now + SESSION_MAX_AGE_MS]
    /\ UNCHANGED <<config, now, jar, db, req, resp>>

\* lines 105-110: the payload is merged, written and signed
CreateSign(t) ==
    /\ calls[t].pc = "created"
    /\ calls' = [calls EXCEPT
          ![t].pc = "issued",
          ![t].token = SignBody(utf8_encode(json_dumps(
                                    SessionPayload(calls[t].payload, calls[t].exp))),
                                utf8_encode(SESSION_SECRET.s)).v]
    /\ UNCHANGED <<config, now, jar, db, req, resp>>

\* lines 120-124
Decoded(t, decoded, signature) ==
    IF ~decoded.ok \/ ~signature.ok THEN Finish(t, Returned(PyNone))
    ELSE calls' = [calls EXCEPT ![t].pc = "decoded", ![t].body = decoded,
                                ![t].signature = signature.bytes]

\* lines 116-119
Parted(t, parts) ==
    IF Len(parts) /= 2 THEN Finish(t, Returned(PyNone))
    ELSE Decoded(t, DecodeBody(base64url_decode_bytes(parts[1])),
                 base64url_decode_bytes(parts[2]))

\* lines 114-124: the call verifies the token it made
VerifyDecode(t) ==
    /\ calls[t].pc = "issued"
    /\ IF ~Truthy(calls[t].token) \/ ~Truthy(SESSION_SECRET)
       THEN Finish(t, Returned(PyNone))
       ELSE Parted(t, split(calls[t].token.s, 46, 1))
    /\ UNCHANGED <<config, now, jar, db, req, resp>>

\* lines 125-129
VerifyCompare(t) ==
    /\ calls[t].pc = "decoded"
    /\ IF ~compare_digest(hmac_digest(utf8_encode(SESSION_SECRET.s),
                                      utf8_encode(LocalBody(t).str)),
                          calls[t].signature)
       THEN Finish(t, Returned(PyNone))
       ELSE calls' = [calls EXCEPT ![t].pc = "compared"]
    /\ UNCHANGED <<config, now, jar, db, req, resp>>

\* lines 130-138
VerifyInspect(t) ==
    /\ calls[t].pc = "compared"
    /\ Finish(t, InspectPayload(LocalBody(t).str))
    /\ UNCHANGED <<config, now, jar, db, req, resp>>

\* calls of create_session_token and verify_session_token in any interleaving
InitCalls ==
    /\ SESSION_SECRET \in {PyNone, PyStr(K1)}
    /\ SESSION_MAX_AGE_MS \in {0 - 1, MaxTTL}
    /\ GOOGLE_CLIENT_ID = PyNone
    /\ ADMIN_EMAILS = {}
    /\ PAYPAL_CONFIGURED = FALSE
    /\ SUBSCRIPTIONS_DB_READY = FALSE
    /\ now = 1
    /\ jar = EmptyJar
    /\ plans = {}
    /\ signups = {}
    /\ req = Idle
    /\ resp = NoResp
    /\ calls = [t \in 1..NCalls |-> NoCall(t)]

NextCalls ==
    \/ \E t \in 1..NCalls : CreateBegin(t)
    \/ \E t \in 1..NCalls : CreateSign(t)
    \/ \E t \in 1..NCalls : VerifyDecode(t)
    \/ \E t \in 1..NCalls : VerifyCompare(t)
    \/ \E t \in 1..NCalls : VerifyInspect(t)
    \/ Tick

SpecCalls == InitCalls /\ [][NextCalls]_vars

KeySubscriptionId == <<115, 117, 98, 115, 99, 114, 105, 112, 116, 105, 111, 110, 73, 100>>

KeyId == <<105, 100>>

KeyPlanId == <<112, 108, 97, 110, 95, 105, 100>>

\* lines 421-426: the ids of the stored plans that have one
allowed_plan_ids == {row.paypal_plan_id : row \in {r \in plans : r.paypal_plan_id /= <<>>}}

\* lines 434-435: details['id'] falls back to the id that was asked about
SubscriptionId(details, subscription_id) ==
    IF Truthy(DictGet(details, KeyId)) THEN DictGet(details, KeyId) ELSE subscription_id

\* INSERT ... ON CONFLICT (paypal_subscription_id) DO UPDATE
record_subscription_signup(user, subscription_id, plan_id) ==
    {row \in signups : row.paypal_subscription_id /= subscription_id}
        \cup {[paypal_subscription_id |-> subscription_id, paypal_plan_id |-> plan_id,
               user_sub |-> DictGet(user, KeySub), user_email |-> DictGet(user, KeyEmail)]}

\* lines 417-452: details is what PayPal gave
RecordSignup(details, listed, recorded) ==
    IF ~Truthy(DictGet(details, KeyPlanId))
    THEN Answer(400, "Subscription plan missing", {"fetch_paypal_subscription"})
    ELSE IF listed = "raise"
    THEN Answer(500, "Unable to verify subscription plan",
                {"fetch_paypal_subscription", "list_subscription_plans"})
    ELSE IF allowed_plan_ids /= {} /\ DictGet(details, KeyPlanId).s \notin allowed_plan_ids
    THEN Answer(400, "Subscription plan mismatch",
                {"fetch_paypal_subscription", "list_subscription_plans"})
    ELSE IF recorded = "raise"
    THEN Answer(500, "Failed to record subscription",
                {"fetch_paypal_subscription", "list_subscription_plans",
                 "record_subscription_signup"})
    ELSE Answer(200, "",
                {"fetch_paypal_subscription", "list_subscription_plans",
                 "record_subscription_signup"})

\* payload: request.get_json(silent=True) or {}; fetched: what
\* fetch_paypal_subscription gives; listed, recorded: whether
\* list_subscription_plans and record_subscription_signup return or raise
subscription_verify(session, payload, fetched, listed, recorded) ==
    require_auth(session,
        IF ~paypal_configured THEN Answer(500, "PayPal is not configured", {})
        ELSE IF ~SUBSCRIPTIONS_DB_READY
        THEN Answer(500, "Subscriptions database not available", {})
        ELSE IF \/ ~Truthy(DictGet(payload, KeySubscriptionId))
                \/ DictGet(payload, KeySubscriptionId).t /= "str"
        THEN Answer(400, "Missing subscriptionId", {})
        ELSE IF fetched.kind = "raise"
        THEN Answer(502, "Unable to verify subscription", {"fetch_paypal_subscription"})
        ELSE RecordSignup(fetched.v, listed, recorded))

\* a request body with a subscriptionId
Asking(id) == PyDict(<<<<KeySubscriptionId, id>>>>)

I1 == PyStr(<<73, 45, 49>>)

P2 == PyStr(<<80, 45, 50>>)

\* what PayPal knows of I-1: on the stored plan, on another plan and without
\* an id of its own, and without a plan
OnPlan == Returned(PyDict(<<<<KeyId, I1>>, <<KeyPlanId, PyStr(PlanId)>>>>))

OnOtherPlan == Returned(PyDict(<<<<KeyPlanId, P2>>>>))

NoPlan == Returned(PyDict(<<<<KeyId, I1>>>>))

SubCase(payload, fetched, listed, recorded) ==
    [payload |-> payload, fetched |-> fetched, listed |-> listed, recorded |-> recorded]

\* both subscriptions with everything working, each refusal of the request
\* body, and each call failing
SubCases ==
    {SubCase(Asking(I1), OnPlan, "return", "return"),
     SubCase(Asking(I1), OnOtherPlan, "return", "return"),
     SubCase(PyNone, OnPlan, "return", "return"),
     SubCase(Asking(PyInt(5)), OnPlan, "return", "return"),
     SubCase(Asking(PyStr(<<>>)), OnPlan, "return", "return"),
     SubCase(Asking(I1), Raised("RequestException"), "return", "return"),
     SubCase(Asking(I1), NoPlan, "return", "return"),
     SubCase(Asking(I1), OnPlan, "raise", "return"),
     SubCase(Asking(I1), OnPlan, "return", "raise")}

\* POST /api/subscription/verify: the row is written when
\* record_subscription_signup was called and returned
SubscriptionVerify(kind, case) ==
    /\ req.op = "idle"
    /\ req' = [Idle EXCEPT !.op = "subscription_verify", !.token = Cookie(kind),
                           !.kind = kind, !.payload = case.payload,
                           !.fetched = case.fetched, !.listed = case.listed,
                           !.recorded = case.recorded]
    /\ resp' = subscription_verify(get_session_from_request(Cookie(kind)),
                                   IF Truthy(case.payload) THEN case.payload
                                   ELSE PyDict(<<>>),
                                   case.fetched, case.listed, case.recorded)
    /\ signups' =
          IF "record_subscription_signup" \in resp'.effects /\ case.recorded = "return"
          THEN record_subscription_signup(
                   resp'.g_user,
                   SubscriptionId(case.fetched.v, DictGet(case.payload, KeySubscriptionId)).s,
                   DictGet(case.fetched.v, KeyPlanId).s)
          ELSE signups
    /\ UNCHANGED <<config, now, jar, plans, calls>>

\* the subscription route, with the plan table empty or holding one plan
InitSub ==
    /\ SESSION_SECRET = PyStr(K1)
    /\ SESSION_MAX_AGE_MS = MaxTTL
    /\ GOOGLE_CLIENT_ID = PyStr(<<99, 105, 100>>)
    /\ ADMIN_EMAILS = {}
    /\ PAYPAL_CONFIGURED \in BOOLEAN
    /\ SUBSCRIPTIONS_DB_READY \in BOOLEAN
    /\ now = 1
    /\ jar = EmptyJar
    /\ plans \in {{}, {[paypal_plan_id |-> PlanId,
                        created_by_email |-> PyStr(<<97, 64, 120, 46, 99, 111, 109>>)]}}
    /\ signups = {}
    /\ calls = <<>>
    /\ req = Idle
    /\ resp = NoResp

NextSub ==
    \/ AuthGoogle(PyDict(<<<<KeyCredential, PyStr(<<99, 114, 101, 100>>)>>>>),
                  GoogleIdentity(UserPlain))
    \/ \E kind \in CookieKinds, case \in SubCases : SubscriptionVerify(kind, case)
    \/ Tick
    \/ Done

SpecSub == InitSub /\ [][NextSub]_vars

(***************************************************************************)
(* Properties                                                              *)
(***************************************************************************)
IssuedPresented == req.op = "verify_session_token" /\ req.kind = "issued"

Nothing == Returned(PyNone)

\* the token in the jar is verified under the secret that signed it
SameSecret == jar.secret = SESSION_SECRET

\* C1: round trip.  A token made by create_session_token and verified under
\* the secret that signed it, with a TTL above 0 and the clock not past the
\* expiry, gives claims that agree with the input on sub, email, name and
\* picture, with iss the fixed issuer and exp the issuance time plus the TTL.
C1_RoundTrip ==
    (/\ IssuedPresented
     /\ SameSecret
     /\ SESSION_MAX_AGE_MS > 0
     /\ now <= jar.at + SESSION_MAX_AGE_MS)
    => /\ resp.result.kind = "return"
       /\ resp.result.v.t = "dict"
       /\ \A k \in {KeySub, KeyEmail, KeyName, KeyPicture} :
             DictGet(resp.result.v, k) = DictGet(jar.payload, k)
       /\ DictGet(resp.result.v, KeyIss) = PyStr(SESSION_ISSUER)
       /\ DictGet(resp.result.v, KeyExp) = PyInt(jar.at + SESSION_MAX_AGE_MS)

\* a token is verified some time after it was issued, not yet expired
C1_Witness ==
    /\ IssuedPresented
    /\ SameSecret
    /\ SESSION_MAX_AGE_MS > 0
    /\ now > jar.at
    /\ now <= jar.at + SESSION_MAX_AGE_MS
    /\ resp.result.v.t = "dict"

\* C2: tamper sensitivity.  An issued token with one bit inverted in its
\* payload segment or in its signature segment is rejected.
C2_TamperRejected ==
    (/\ req.op = "verify_session_token"
     /\ req.kind \in {"tampered payload", "tampered signature"})
    => resp.result = Nothing

\* C3: wrong key.  A token is rejected whenever the secret it is verified
\* under is not the secret it was issued under, whatever its expiry.
C3_WrongKey == (IssuedPresented /\ ~SameSecret) => resp.result = Nothing

\* an unexpired token meets another key after the secret was rotated
C3_Witness ==
    /\ IssuedPresented
    /\ Truthy(SESSION_SECRET)
    /\ Truthy(jar.secret)
    /\ ~SameSecret
    /\ SESSION_MAX_AGE_MS > 0
    /\ now <= jar.at + SESSION_MAX_AGE_MS
    /\ resp.result = Nothing

\* a forged object signed with the current secret is being verified
SignedObject ==
    /\ req.op = "verify_session_token"
    /\ req.kind = "signed"
    /\ req.payload.t = "dict"

RightIssuer == DictGet(req.payload, KeyIss) = PyStr(SESSION_ISSUER)

ForgedExp == DictGet(req.payload, KeyExp)

\* the outcome for a signed payload with the right issuer and exp a number
\* or missing; an issued token with TTL -1
C4_Outcome ==
    /\ (SignedObject /\ RightIssuer /\ ForgedExp.t \in {"none", "int"})
       => resp.result = IF ForgedExp.t = "none" \/ ForgedExp.n = 0 \/ ForgedExp.n < now
                        THEN Nothing
                        ELSE Returned(req.payload)
    /\ (IssuedPresented /\ SameSecret /\ SESSION_MAX_AGE_MS = 0 - 1)
       => resp.result = Nothing

\* C4: expiry.  A correctly signed token with the right issuer is rejected
\* when exp is missing, zero or below the clock, and gives the claims
\* otherwise, also at the instant now = exp; a token issued with TTL -1 is
\* rejected; with the clock moving forward only, a token that was rejected
\* under the secret that signed it is not accepted afterwards.
C4_Expiry ==
    /\ C4_Outcome
    /\ (IssuedPresented /\ SameSecret /\ jar.rejected) => resp.result = Nothing

\* a signed token whose exp is the current instant is accepted
C4_Witness ==
    /\ SignedObject
    /\ RightIssuer
    /\ ForgedExp = PyInt(now)
    /\ resp.result = Returned(req.payload)

\* C5: issuer pinning.  A payload signed with the current secret and not
\* expired, whose iss is missing or not the fixed issuer, is rejected.
C5_IssuerPinning ==
    (/\ SignedObject
     /\ ~RightIssuer
     /\ ForgedExp.t = "int"
     /\ ForgedExp.n >= now)
    => resp.result = Nothing

\* a signed, unexpired payload with another issuer has been rejected
C5_Witness ==
    /\ SignedObject
    /\ DictHas(req.payload, KeyIss)
    /\ ~RightIssuer
    /\ ForgedExp.t = "int"
    /\ ForgedExp.n >= now
    /\ resp.result = Nothing

\* C6: verify_session_token never raises and answers None for the missing
\* or empty token, for an unset secret, for a wrong number of separators,
\* for segments that are no base64url, and for payload bytes that are no
\* JSON or no JSON object, signed or not.
C6_NeverRaises ==
    (/\ req.op = "verify_session_token"
     /\ \/ req.kind = "malformed"
        \/ ~Truthy(SESSION_SECRET)
        \/ req.kind \in {"signed", "unsigned"} /\ req.payload = PyNone)
    => resp.result = Nothing

\* a request to a route behind require_auth has been answered
Wrapped == req.op \in {"secret", "admin_plans", "admin_create_plan"}

\* what verification says about the cookie of the request
Session == verify_session_token(req.token)

ValidSession == Session.kind = "return" /\ Session.v.t = "dict"

\* C7: a route behind require_auth runs its body only for a cookie that
\* verifies to claims, with g.user exactly those claims; every other request
\* is answered 401 and the body is not entered.
C7_RequireAuth ==
    Wrapped =>
       IF ValidSession
       THEN resp.entered /\ resp.g_user = Session.v
       ELSE resp.status = 401 /\ ~resp.entered

AdminRoute == req.op \in {"admin_plans", "admin_create_plan"}

\* C8: on admin_plans and admin_create_plan a request without a valid session
\* is answered 401, one with a valid session that is no admin's 403, and the
\* database is read, PayPal called or a plan written only for a valid session
\* of an admin.
C8_AdminRoutes ==
    AdminRoute =>
       /\ ~ValidSession => resp.status = 401
       /\ (ValidSession /\ is_admin(Session.v) = Returned(PyBool(FALSE)))
             => resp.status = 403
       /\ resp.status \in {401, 403} => resp.effects = {}
       /\ resp.effects /= {} => (ValidSession /\ is_admin(Session.v) = Returned(PyBool(TRUE)))

\* email: the address of the claims is_admin was asked about
AskedEmail == DictGet(req.payload, KeyEmail)

AX == <<97, 64, 120, 46, 99, 111, 109>>

\* C9: is_admin is false for absent claims, for claims without an email or
\* with an empty one, and for an empty allow-list; otherwise it is true
\* exactly when the lower-cased email equals some lower-cased member.  With
\* the allow-list {a@x.com}, A@X.com is an admin and a@y.com is not.
C9_IsAdmin ==
    req.op = "is_admin" =>
       /\ resp.result = Returned(PyBool(
             /\ Truthy(req.payload)
             /\ Truthy(AskedEmail)
             /\ ADMIN_EMAILS /= {}
             /\ \E value \in ADMIN_EMAILS : lower(AskedEmail.s) = lower(value)))
       /\ (ADMIN_EMAILS = {AX} /\ req.payload = UserAdmin)
             => resp.result = Returned(PyBool(TRUE))
       /\ (ADMIN_EMAILS = {AX} /\ req.payload = UserPlain)
             => resp.result = Returned(PyBool(FALSE))

\* A@X.com has been found on the allow-list {a@x.com}
C9_Witness ==
    /\ req.op = "is_admin"
    /\ ADMIN_EMAILS = {AX}
    /\ req.payload = UserAdmin
    /\ resp.result = Returned(PyBool(TRUE))

\* C10: with the secret unset or empty create_session_token raises the
\* configuration error and gives no token, and auth_google answers 5xx
\* without calling the identity verifier and without setting a cookie; no
\* token is ever signed.
C10_NoSecret ==
    ~Truthy(SESSION_SECRET) =>
       /\ req.op = "create_session_token" => resp.result = Raised("RuntimeError")
       /\ req.op = "auth_google"
             => /\ resp.status \in 500..599
                /\ "verify_oauth2_token" \notin resp.effects
                /\ resp.set_cookie = PyNone
       /\ jar.token = PyNone

\* a login with a credential has been refused because the secret is empty
C10_Witness ==
    /\ req.op = "auth_google"
    /\ SESSION_SECRET = PyStr(<<>>)
    /\ Truthy(GOOGLE_CLIENT_ID)
    /\ Truthy(req.payload)
    /\ Truthy(DictGet(req.payload, KeyCredential))
    /\ resp.status = 500

\* create_session_token has returned a token
Issued == req.op = "create_session_token" /\ resp.result.kind = "return"

IssuedParts == split(resp.result.v.s, 46, 1)

\* the bytes the signature of the returned token was made over
SignedBytes == base64url_decode_bytes(IssuedParts[1]).bytes

\* the payload that was signed
SignedPayload == json_loads(utf8_decode(SignedBytes).str)

Keys(dict) == {dict.d[i][1] : i \in 1..Len(dict.d)}

\* C11: for every payload given to create_session_token, also one with its
\* own iss or exp, the payload under the signature has iss the fixed issuer
\* and exp the clock plus the TTL, and every other field as it was given.
C11_IssuerExpiryFixed ==
    (req.op = "create_session_token" /\ Truthy(SESSION_SECRET)) =>
       /\ Issued
       /\ Len(IssuedParts) = 2
       /\ IssuedParts[2] =
             base64url_encode(hmac_digest(utf8_encode(SESSION_SECRET.s), SignedBytes))
       /\ SignedPayload.t = "dict"
       /\ DictGet(SignedPayload, KeyIss) = PyStr(SESSION_ISSUER)
       /\ DictGet(SignedPayload, KeyExp) = PyInt(now + SESSION_MAX_AGE_MS)
       /\ Keys(SignedPayload) = Keys(req.payload) \cup {KeyIss, KeyExp}
       /\ \A k \in Keys(req.payload) \ {KeyIss, KeyExp} :
             DictGet(SignedPayload, k) = DictGet(req.payload, k)

\* a token was made from a payload that came with another iss and an exp
C11_Witness ==
    /\ Issued
    /\ DictHas(req.payload, KeyIss)
    /\ DictGet(req.payload, KeyIss) /= PyStr(SESSION_ISSUER)
    /\ DictHas(req.payload, KeyExp)
    /\ DictGet(req.payload, KeyExp) /= PyInt(now + SESSION_MAX_AGE_MS)

\* the segments of the token that verify_session_token was given
PresentedParts == split(req.token.s, 46, 1)

\* both segments decode, and the signature segment is not the HMAC of the
\* decoded payload under the current secret
BadSignature ==
    /\ req.op = "verify_session_token"
    /\ Truthy(req.token)
    /\ Truthy(SESSION_SECRET)
    /\ Len(PresentedParts) = 2
    /\ base64url_decode_bytes(PresentedParts[1]).ok
    /\ base64url_decode_bytes(PresentedParts[2]).ok
    /\ base64url_decode_bytes(PresentedParts[2]).bytes
          /= hmac_digest(utf8_encode(SESSION_SECRET.s),
                         base64url_decode_bytes(PresentedParts[1]).bytes)

\* C12: the signature is compared before the payload is parsed or inspected:
\* a token whose signature segment is not the HMAC of its decoded payload
\* under the current secret yields nothing, whatever the payload is (no
\* JSON, no object, any iss, any exp).
C12_SignatureFirst == BadSignature => resp.result = Nothing

\* a payload that is no JSON object, under a wrong signature, was rejected
C12_Witness ==
    /\ BadSignature
    /\ req.kind = "unsigned"
    /\ req.body = <<91, 93>>
    /\ resp.result = Nothing

\* the token in the jar is not past its exp, under the secret that signed it
StillValid == SameSecret /\ now <= jar.at + SESSION_MAX_AGE_MS

\* C13: auth_logout answers with a cookie of empty value and max-age 0 and
\* does nothing else; a token issued before, presented again after any
\* logouts, logins and other requests, is accepted by verify_session_token
\* and by the routes behind require_auth while the secret is the same and
\* the clock is not past its exp.
C13_StatelessLogout ==
    /\ req.op = "auth_logout"
          => /\ resp.status = 200
             /\ resp.set_cookie = PyStr(<<>>)
             /\ resp.max_age = 0
             /\ resp.effects = {}
    /\ (IssuedPresented /\ StillValid)
          => /\ resp.result.kind = "return"
             /\ resp.result.v.t = "dict"
             /\ \A k \in {KeySub, KeyEmail, KeyName, KeyPicture} :
                   DictGet(resp.result.v, k) = DictGet(jar.payload, k)
    /\ (req.op = "secret" /\ req.kind = "issued" /\ jar.token /= PyNone /\ StillValid)
          => resp.entered /\ resp.status = 200

\* a token was accepted after the logout that followed its login
C13_Witness ==
    /\ IssuedPresented
    /\ jar.cleared
    /\ now > jar.at
    /\ resp.result.kind = "return"
    /\ resp.result.v.t = "dict"

\* the payload under the signature of the token call t made
TokenPayload(t) ==
    json_loads(utf8_decode(
        base64url_decode_bytes(split(calls[t].token.s, 46, 1)[1]).bytes).str)

\* C14: with calls of create_session_token and verify_session_token of
\* distinct claims running side by side in any interleaving, the token a
\* call has made carries the claims of that call, its verification yields
\* those claims or nothing, and yields them when the clock is not past its
\* exp.
C14_NoCrossTalk ==
    \A t \in DOMAIN calls :
       /\ calls[t].pc = "issued"
             => TokenPayload(t) = SessionPayload(ClaimsOf(t), calls[t].exp)
       /\ calls[t].pc = "done"
             => \/ calls[t].result = Returned(SessionPayload(ClaimsOf(t), calls[t].exp))
                \/ /\ calls[t].result = Nothing
                   /\ ~Truthy(SESSION_SECRET) \/ calls[t].exp = 0 \/ now > calls[t].exp
                \/ /\ calls[t].result = Raised("RuntimeError")
                   /\ ~Truthy(SESSION_SECRET)

\* one call has its own claims back while another is in the middle of its
\* verification
C14_Witness ==
    \E t \in DOMAIN calls, u \in DOMAIN calls :
       /\ t /= u
       /\ calls[t].pc = "done"
       /\ calls[t].result = Returned(SessionPayload(ClaimsOf(t), calls[t].exp))
       /\ calls[u].pc = "decoded"

SubRequest == req.op = "subscription_verify"

AskedId == DictGet(IF Truthy(req.payload) THEN req.payload ELSE PyDict(<<>>),
                   KeySubscriptionId)

FetchedPlan == DictGet(req.fetched.v, KeyPlanId)

\* the answer the order of the checks gives
SubStatus ==
    IF ~ValidSession THEN 401
    ELSE IF ~PAYPAL_CONFIGURED \/ ~SUBSCRIPTIONS_DB_READY THEN 500
    ELSE IF AskedId.t /= "str" \/ AskedId.s = <<>> THEN 400
    ELSE IF req.fetched.kind = "raise" THEN 502
    ELSE IF ~Truthy(FetchedPlan) THEN 400
    ELSE IF req.listed = "raise" THEN 500
    ELSE IF plans /= {} /\ \A row \in plans : row.paypal_plan_id /= FetchedPlan.s THEN 400
    ELSE IF req.recorded = "raise" THEN 500
    ELSE 200

\* the answer and the calls made follow the order of the checks
C15_Answer ==
    SubRequest =>
       /\ resp.status = SubStatus
       /\ "record_subscription_signup" \in resp.effects
             => /\ ValidSession
                /\ PAYPAL_CONFIGURED /\ SUBSCRIPTIONS_DB_READY
                /\ AskedId.t = "str"
                /\ req.fetched.kind = "return"
                /\ Truthy(FetchedPlan)
                /\ plans = {} \/ \E row \in plans : row.paypal_plan_id = FetchedPlan.s
       /\ (plans = {} /\ SubStatus = 200)
             => \E row \in signups : row.paypal_plan_id = FetchedPlan.s

\* a signup row is written by an answer 200 only
C15_Write ==
    (req.op = "idle" /\ req'.op = "subscription_verify")
       => /\ resp'.status /= 200 => signups' = signups
          /\ resp'.status = 200
                => \E row \in signups' :
                      /\ row.paypal_plan_id = DictGet(req'.fetched.v, KeyPlanId).s
                      /\ row.user_sub = DictGet(resp'.g_user, KeySub)

\* C15: subscription_verify answers 401 without a valid session, then 500
\* without PayPal or the database, 400 without a text subscriptionId, 502
\* when the subscription cannot be fetched, 400 without a plan_id, 400 for a
\* plan_id that is none of the stored ones (a check left out while no plan is
\* stored), and writes the signup row only after all of that; an error answer
\* writes no row.
C15_SignupOrder == []C15_Answer /\ [][C15_Write]_vars

====
